---- MODULE Spec2Model ----
(***************************************************************************)
(* The render / effect cycle of the two lesson components, DogPics         *)
(* (src/src/DogPics.js) and App (src/unnamed/part_000 and the App          *)
(* variants of src/README.md), run by a host that renders a component,     *)
(* commits its output, runs the due effects of the commit and re-renders   *)
(* the component when one of its state cells is set.                       *)
(***************************************************************************)
EXTENDS Integers, Sequences, FiniteSets, TLC

\* Bound on the number of times one instance is rendered.
MaxRenders == 4

\* Bound on the value of App's click counter.
MaxCount == 2

\* The DogPics instances of the page.
Inst == {1, 2}

(***************************************************************************)
(* JavaScript values that a response can carry in data.message.            *)
(***************************************************************************)
Undefined == [type |-> "undefined", str |-> "", items |-> <<>>]

Str(s) == [type |-> "string", str |-> s, items |-> <<>>]

Arr(xs) == [type |-> "array", str |-> "", items |-> xs]

StrElem(s) == [type |-> "string", str |-> s]

NumElem(s) == [type |-> "number", str |-> s]

IsArray(v) == v.type = "array"

IsStringSeq(v) == IsArray(v) /\ \A k \in 1..Len(v.items) : v.items[k].type = "string"

\* Payloads of the shape the API documents: message is three image URLs.
GoodMessages ==
    { Arr(<<StrElem("a"), StrElem("b"), StrElem("c")>>),
      Arr(<<StrElem("d"), StrElem("e"), StrElem("f")>>) }

\* The payload of a fetch mock that resolves with the same three images
\* every time.
MockMessages == { Arr(<<StrElem("a"), StrElem("b"), StrElem("c")>>) }

\* Arrays, well-formed or not: images.map works on them.
ArrayMessages == GoodMessages \cup { Arr(<<NumElem("1")>>) }

\* Every data.message the model delivers: also no message field, and the
\* API's error payload, whose message is a plain string.
Messages == ArrayMessages \cup { Undefined, Str("error") }

\* data, the body that r.json() resolves with: an object whose message
\* field is m (Undefined when the object has no such field) ...
Data(m) == [isNull |-> FALSE, message |-> m]

\* ... or null, the one JSON body on which reading data.message throws.
NullData == [isNull |-> TRUE, message |-> Undefined]

DataOf(ms) == { Data(m) : m \in ms }

\* Every body the model delivers.
AnyData == DataOf(Messages) \cup { NullData }

(***************************************************************************)
(* Dependency lists of useEffect.                                          *)
(***************************************************************************)
NoDeps == [present |-> FALSE, list |-> <<>>]

Deps(xs) == [present |-> TRUE, list |-> xs]

\* Faulty variant: the dependency list is ignored.
EffectDueIgnoresDeps(mount, next, prev) == TRUE

\* An effect is due after the mounting render, after every render when it
\* has no dependency list, and otherwise when some listed value differs
\* from its value at the previous render.
EffectDue(mount, next, prev) ==
    \/ mount
    \/ ~next.present
    \/ \E k \in 1..Len(next.list) : next.list[k] # prev.list[k]

VARIABLES dog, app

vars == <<dog, app>>

(***************************************************************************)
(* App                                                                     *)
(***************************************************************************)
\* The texts the input can hold.
Texts == {"", "a", "b"}

\* The versions of App: part_000 ("static"), and the README's App with
\* state and an effect with no dependency list ("nodeps"), with [count]
\* ("count"), with [] ("empty"), and its last version with the two effects
\* [text] and [] ("final").
AppVariants == {"static", "nodeps", "count", "empty", "final"}

NumEffects(variant) == IF variant = "final" THEN 2 ELSE 1

\* Faulty variant: no effect of App is given a dependency list.
AppDepsMissing(a, k) == NoDeps

\* Faulty variant: every effect of App is given the empty list.
AppDepsEmpty(a, k) == Deps(<<>>)

\* The second argument of the k-th useEffect of App, at a render that
\* sees the state of a.
AppDeps(a, k) ==
    CASE a.variant \in {"static", "nodeps"} -> NoDeps
      [] a.variant = "count" -> Deps(<<a.count>>)
      [] a.variant = "empty" -> Deps(<<>>)
      [] a.variant = "final" /\ k = 1 -> Deps(<<a.text>>)
      [] a.variant = "final" /\ k = 2 -> Deps(<<>>)

\* Faulty variant: the callback of App sets state.
AppEffectSetsState(a, k) ==
    [a EXCEPT !.log = Append(@, "useEffect called"), !.count = @ + 1, !.dirty = TRUE]

\* The callback of the k-th effect: a log line, or in the last version
\* document.title = text (the text its render saw) and setTimeout.
AppEffectCallback(a, k) ==
    CASE a.variant # "final" -> [a EXCEPT !.log = Append(@, "useEffect called")]
      [] a.variant = "final" /\ k = 1 -> [a EXCEPT !.title = a.seenText]
      [] a.variant = "final" /\ k = 2 ->
            [a EXCEPT !.timers = @ + 1, !.timersSet = @ + 1]

AppState(status, variant) ==
    [status       |-> status,
     variant      |-> variant,
     phase        |-> "idle",
     dirty        |-> status = "mounted",
     count        |-> 0,
     text         |-> "",
     seenCount    |-> 0,
     seenText     |-> "",
     effectDue    |-> [k \in 1..NumEffects(variant) |-> FALSE],
     prevDeps     |-> [k \in 1..NumEffects(variant) |-> NoDeps],
     effectRuns   |-> [k \in 1..NumEffects(variant) |-> 0],
     renders      |-> 0,
     commits      |-> 0,
     countChanges |-> 0,
     textChanges  |-> 0,
     title        |-> "",
     timers       |-> 0,
     timersSet    |-> 0,
     log          |-> <<>>]

AppInit(variant) == AppState("mounted", variant)

\* The app is not on the page.
AppAbsent == AppState("absent", "static")

\* The body of App runs: useState hands out count and text, every
\* useEffect registers its effect, "Component rendering" is logged.
\* countChanges and textChanges count the re-renders that see another
\* count, another text, than the render before.
AppRender ==
    LET n == NumEffects(app.variant)
    IN  /\ app.status = "mounted"
        /\ app.dirty
        /\ app.phase = "idle"
        /\ app.renders < MaxRenders
        /\ app' = [app EXCEPT
              !.dirty = FALSE,
              !.renders = @ + 1,
              !.phase = "rendered",
              !.seenCount = app.count,
              !.seenText = app.text,
              !.countChanges =
                  IF app.renders > 0 /\ app.count # app.seenCount THEN @ + 1 ELSE @,
              !.textChanges =
                  IF app.renders > 0 /\ app.text # app.seenText THEN @ + 1 ELSE @,
              !.effectDue =
                  [k \in 1..n |-> EffectDue(app.renders = 0, AppDeps(app, k), app.prevDeps[k])],
              !.prevDeps = [k \in 1..n |-> AppDeps(app, k)],
              !.log = Append(@, "Component rendering")]
        /\ UNCHANGED dog

AppCommit ==
    /\ app.status = "mounted"
    /\ app.phase = "rendered"
    /\ app' = [app EXCEPT !.phase = "committed", !.commits = @ + 1]
    /\ UNCHANGED dog

\* The k-th effect of the commit runs if it is due.
RunSlot(a, k) ==
    IF a.effectDue[k]
    THEN [AppEffectCallback(a, k) EXCEPT !.effectRuns[k] = @ + 1]
    ELSE a

RECURSIVE RunSlots(_, _)
\* The first n effects of the commit, in the order of their registration.
RunSlots(a, n) == IF n = 0 THEN a ELSE RunSlot(RunSlots(a, n - 1), n)

AppRunEffects ==
    /\ app.status = "mounted"
    /\ app.phase = "committed"
    /\ app' = [RunSlots(app, NumEffects(app.variant)) EXCEPT !.phase = "idle"]
    /\ UNCHANGED dog

\* onClick: setCount((count) => count + 1).
Click ==
    /\ app.status = "mounted"
    /\ app.variant # "static"
    /\ app.commits >= 1
    /\ app.count < MaxCount
    /\ app' = [app EXCEPT !.count = @ + 1, !.dirty = TRUE]
    /\ UNCHANGED dog

\* onChange: setText(e.target.value), the input now holding v.
Type(v) ==
    /\ app.status = "mounted"
    /\ app.variant # "static"
    /\ app.commits >= 1
    /\ v # app.text
    /\ app' = [app EXCEPT !.text = v, !.dirty = TRUE]
    /\ UNCHANGED dog

\* A timeout set by the effect fires: setCount(0), whatever count is. A
\* call that changes count schedules a re-render. For a call with the
\* value count holds already the repository only says that a setter call
\* re-renders; the host may also skip that re-render, so the model takes
\* either outcome.
TimerFire ==
    /\ app.timers > 0
    /\ \E rerender \in {TRUE, app.dirty \/ app.count # 0} :
          app' = [app EXCEPT !.timers = @ - 1,
                             !.count = 0,
                             !.dirty = rerender]
    /\ UNCHANGED dog

\* App is rendered again from outside (its root is rendered again).
AppRerender ==
    /\ app.status = "mounted"
    /\ ~app.dirty
    /\ app' = [app EXCEPT !.dirty = TRUE]
    /\ UNCHANGED dog

(***************************************************************************)
(* DogPics                                                                 *)
(***************************************************************************)
\* Faulty variant: the dependency list is left out of the fix too.
DogDepsMissing(variant) == NoDeps

\* Faulty variant: the shipped effect is given the empty list.
DogDepsEmpty(variant) == Deps(<<>>)

\* The second argument of DogPics's useEffect: none as shipped, [] in the
\* README's fix.
DogDeps(variant) == IF variant = "shipped" THEN NoDeps ELSE Deps(<<>>)

DogInit(variant, on) ==
    [i \in Inst |->
        [status     |-> IF i \in on THEN "mounted" ELSE "absent",
         variant    |-> variant,
         phase      |-> "idle",
         dirty      |-> i \in on,
         images     |-> Arr(<<>>),
         effectDue  |-> FALSE,
         prevDeps   |-> NoDeps,
         inflight   |-> {},
         requests   |-> 0,
         renders    |-> 0,
         commits    |-> 0,
         effectRuns |-> 0,
         resolved   |-> 0,
         rejected   |-> 0,
         arrived    |-> {},
         latest     |-> <<>>,
         answered   |-> 0,
         log        |-> <<>>]]

\* Faulty variant: the callback calls fetch twice.
EffectCallbackFetchesTwice(d) ==
    [d EXCEPT !.effectRuns = @ + 1,
              !.log = Append(@, "useEffect"),
              !.requests = @ + 2,
              !.inflight = @ \cup {d.requests + 1, d.requests + 2}]

\* The effect callback: logs "useEffect" and calls fetch.
EffectCallback(d) ==
    [d EXCEPT !.effectRuns = @ + 1,
              !.log = Append(@, "useEffect"),
              !.requests = @ + 1,
              !.inflight = @ \cup {d.requests + 1}]

\* Faulty variant: the body calls the effect callback itself, where it
\* registers it, instead of leaving it to the host.
RenderRunsEffectInline(i) ==
    LET d == dog[i]
    IN  /\ d.status = "mounted"
        /\ d.dirty
        /\ d.phase = "idle"
        /\ d.renders < MaxRenders
        /\ dog' = [dog EXCEPT ![i] =
              [EffectCallback(d) EXCEPT !.dirty = FALSE,
                                        !.renders = @ + 1,
                                        !.effectDue = FALSE,
                                        !.log = Append(@, "render"),
                                        !.phase = "rendered"]]
        /\ UNCHANGED app

\* The body of DogPics runs: useState hands out the cell, useEffect
\* registers the effect, "render" is logged, and images.map builds the
\* output, which throws when images is not an array.
Render(i) ==
    LET d == dog[i]
        next == DogDeps(d.variant)
    IN  /\ d.status = "mounted"
        /\ d.dirty
        /\ d.phase = "idle"
        /\ d.renders < MaxRenders
        /\ dog' = [dog EXCEPT ![i] =
              [d EXCEPT !.dirty = FALSE,
                        !.renders = @ + 1,
                        !.effectDue = EffectDue(d.renders = 0, next, d.prevDeps),
                        !.prevDeps = next,
                        !.log = Append(@, "render"),
                        !.status = IF IsArray(d.images) THEN "mounted" ELSE "crashed",
                        !.phase = IF IsArray(d.images) THEN "rendered" ELSE "idle"]]
        /\ UNCHANGED app

\* The host commits the rendered output.
Commit(i) ==
    LET d == dog[i]
    IN  /\ d.status = "mounted"
        /\ d.phase = "rendered"
        /\ dog' = [dog EXCEPT ![i] =
              [d EXCEPT !.phase = "committed", !.commits = @ + 1]]
        /\ UNCHANGED app

\* The host runs the effects of the commit that are due.
RunEffects(i) ==
    LET d == dog[i]
        ran == IF d.effectDue THEN EffectCallback(d) ELSE d
    IN  /\ d.status = "mounted"
        /\ d.phase = "committed"
        /\ dog' = [dog EXCEPT ![i] = [ran EXCEPT !.phase = "idle"]]
        /\ UNCHANGED app

\* Faulty variant: the cell is written without scheduling a re-render.
SetImagesNoRerender(d, v) ==
    IF d.status = "mounted"
    THEN [d EXCEPT !.images = v]
    ELSE d

\* Faulty variant: setImages writes the cell and schedules a re-render
\* whether or not the instance is still mounted.
SetImagesAfterUnmount(d, v) == [d EXCEPT !.images = v, !.dirty = TRUE]

\* setImages: the cell takes the value and a re-render of the instance is
\* scheduled; on an instance that is no longer mounted it does nothing.
\* Every r.json() builds a new array, never identical to the one in the
\* cell, and a render that sees anything but an array throws, so the host
\* never skips the re-render for an unchanged value.
SetImages(d, v) ==
    IF d.status = "mounted"
    THEN [d EXCEPT !.images = v, !.dirty = TRUE]
    ELSE d

\* Faulty variant: the handler drops the response of a request that is
\* not the last one issued.
ResponseHandlerDropsStale(d, r, data) ==
    LET logged == [d EXCEPT !.inflight = @ \ {r},
                            !.resolved = @ + 1,
                            !.arrived = @ \cup {data},
                            !.latest = <<data>>,
                            !.answered = r,
                            !.log = Append(@, "setState")]
    IN  IF data.isNull \/ r # d.requests
        THEN logged
        ELSE SetImages(logged, data.message)

\* The response handler of request r, called with the body data: it logs
\* "setState", then evaluates data.message and calls setImages with it.
\* On a null body the evaluation throws after the log line: setImages is
\* not called and, the chain having no catch, nothing else runs. arrived
\* is the set of the bodies that have arrived, latest holds the body that
\* arrived last, answered is the request it answers, resolved counts the
\* handler's runs.
ResponseHandler(d, r, data) ==
    LET logged == [d EXCEPT !.inflight = @ \ {r},
                            !.resolved = @ + 1,
                            !.arrived = @ \cup {data},
                            !.latest = <<data>>,
                            !.answered = r,
                            !.log = Append(@, "setState")]
    IN  IF data.isNull
        THEN logged
        ELSE SetImages(logged, data.message)

\* Faulty variant: the images are kept in one place shared by all
\* instances, so a response delivers them to every mounted instance.
RespondShared(i, r, data) ==
    /\ r \in dog[i].inflight
    /\ dog' = [j \in Inst |->
                 IF j = i THEN ResponseHandler(dog[i], r, data)
                 ELSE IF data.isNull THEN dog[j]
                 ELSE SetImages(dog[j], data.message)]
    /\ UNCHANGED app

\* Request r of instance i resolves and r.json() resolves with the body
\* data.
Respond(i, r, data) ==
    /\ r \in dog[i].inflight
    /\ dog' = [dog EXCEPT ![i] = ResponseHandler(dog[i], r, data)]
    /\ UNCHANGED app

\* Faulty variant: a rejection is caught and the images are reset.
RejectResetsImages(i, r) ==
    /\ r \in dog[i].inflight
    /\ dog' = [dog EXCEPT ![i] =
          [@ EXCEPT !.inflight = @ \ {r}, !.rejected = @ + 1,
                    !.images = Arr(<<>>), !.dirty = TRUE]]
    /\ UNCHANGED app

\* Faulty variant: a rejection is caught and the request is issued again.
RejectRetries(i, r) ==
    /\ r \in dog[i].inflight
    /\ dog[i].requests < MaxRenders
    /\ dog' = [dog EXCEPT ![i] =
          [@ EXCEPT !.inflight = (@ \ {r}) \cup {dog[i].requests + 1},
                    !.requests = @ + 1, !.rejected = @ + 1]]
    /\ UNCHANGED app

\* Request r of instance i rejects: the chain has no catch, no handler runs.
Reject(i, r) ==
    /\ r \in dog[i].inflight
    /\ dog' = [dog EXCEPT ![i] =
          [@ EXCEPT !.inflight = @ \ {r}, !.rejected = @ + 1]]
    /\ UNCHANGED app

\* The parent re-renders, or an unrelated update re-renders the instance.
ParentRerender(i) ==
    /\ dog[i].status = "mounted"
    /\ ~dog[i].dirty
    /\ dog' = [dog EXCEPT ![i] = [@ EXCEPT !.dirty = TRUE]]
    /\ UNCHANGED app

\* The parent stops rendering the instance. The host first finishes the
\* commit and the effects that are pending. The effect returned no
\* cleanup, so nothing is cancelled: the requests in flight stay in flight.
\* The cell and the effect slot are gone with the instance; a re-render
\* that was scheduled is dropped.
Unmount(i) ==
    /\ dog[i].status = "mounted"
    /\ dog[i].phase = "idle"
    /\ dog' = [dog EXCEPT ![i] = [@ EXCEPT !.status = "unmounted", !.dirty = FALSE]]
    /\ UNCHANGED app

Requests(i) == 1..MaxRenders

\* DogPics as shipped, one instance, any network outcome, re-renders from
\* outside allowed.
Init == dog = DogInit("shipped", {1}) /\ app = AppAbsent

Next ==
    \E i \in Inst :
        \/ Render(i)
        \/ Commit(i)
        \/ RunEffects(i)
        \/ \E r \in Requests(i), data \in AnyData : Respond(i, r, data)
        \/ \E r \in Requests(i) : Reject(i, r)
        \/ ParentRerender(i)

Spec == Init /\ [][Next]_vars

\* DogPics with the README's fix, one instance, any network outcome,
\* re-renders from outside allowed.
InitFixed == dog = DogInit("fixed", {1}) /\ app = AppAbsent

SpecFixed == InitFixed /\ [][Next]_vars

\* App in each of its versions, clicked, typed into and re-rendered.
InitApp == dog = DogInit("shipped", {}) /\ app \in {AppInit(v) : v \in AppVariants}

NextApp ==
    \/ AppRender
    \/ AppCommit
    \/ AppRunEffects
    \/ Click
    \/ \E v \in Texts : Type(v)
    \/ TimerFire
    \/ AppRerender

SpecApp == InitApp /\ [][NextApp]_vars

\* DogPics as shipped, mounted alone: nothing but its own state updates
\* re-renders it.
NextAlone ==
    \/ Render(1)
    \/ Commit(1)
    \/ RunEffects(1)
    \/ \E r \in Requests(1), data \in AnyData : Respond(1, r, data)
    \/ \E r \in Requests(1) : Reject(1, r)

SpecAlone == Init /\ [][NextAlone]_vars

\* DogPics as shipped, mounted alone, with a fetch that always resolves
\* with an array of images. The host and the network do not stop while a
\* step of theirs is pending.
NextLoop ==
    \/ Render(1)
    \/ Commit(1)
    \/ RunEffects(1)
    \/ \E r \in Requests(1), data \in DataOf(ArrayMessages) : Respond(1, r, data)

SpecLoop == Init /\ [][NextLoop]_vars /\ WF_vars(NextLoop)

\* DogPics with the README's fix, two instances, each re-rendered by its
\* own state updates only, with a fetch that always resolves with an array
\* of images.
InitFixedLive == dog = DogInit("fixed", Inst) /\ app = AppAbsent

NextFixedLive ==
    \E i \in Inst :
        \/ Render(i)
        \/ Commit(i)
        \/ RunEffects(i)
        \/ \E r \in Requests(i), data \in DataOf(ArrayMessages) : Respond(i, r, data)

FairFixedLive ==
    \A i \in Inst :
        /\ WF_vars(Render(i))
        /\ WF_vars(Commit(i))
        /\ WF_vars(RunEffects(i))
        /\ WF_vars(\E r \in Requests(i), data \in DataOf(ArrayMessages) : Respond(i, r, data))

SpecFixedLive == InitFixedLive /\ [][NextFixedLive]_vars /\ FairFixedLive

\* A page with DogPics as shipped and the App of part_000, both re-rendered
\* from outside too, with a fetch mock that always resolves with the same
\* three images.
InitPage == dog = DogInit("shipped", {1}) /\ app = AppInit("static")

NextPage ==
    \/ Render(1)
    \/ Commit(1)
    \/ RunEffects(1)
    \/ \E r \in Requests(1), data \in DataOf(MockMessages) : Respond(1, r, data)
    \/ ParentRerender(1)
    \/ AppRender
    \/ AppCommit
    \/ AppRunEffects
    \/ AppRerender

SpecPage == InitPage /\ [][NextPage]_vars

(***************************************************************************)
(* Properties                                                              *)
(***************************************************************************)
\* The effects of the first commit of d have run.
FirstEffectsRan(d) == d.commits >= 2 \/ (d.commits = 1 /\ d.phase # "committed")

\* C2: DogPics with the empty dependency list issues at most one request,
\* and exactly one once the effects of its first commit have run, whatever
\* re-renders follow.
C2_FixedIssuesOneRequest ==
    /\ dog[1].requests <= 1
    /\ dog[1].requests = 1 <=> FirstEffectsRan(dog[1])

\* C2 witness: one request after three commits, the response processed.
C2_Witness ==
    /\ dog[1].variant = "fixed"
    /\ dog[1].commits >= 3
    /\ dog[1].resolved = 1
    /\ dog[1].requests = 1

\* C4: with no dependency list the callback of App has run once for every
\* commit: as often as there are commits, less the commit whose effects are
\* still to run.
C4_NoDepsRunsEveryCommit ==
    app.variant \in {"static", "nodeps"} =>
        app.effectRuns[1] = IF app.phase = "committed" THEN app.commits - 1 ELSE app.commits

\* C4 witness: three commits caused by a click, by typing and from
\* outside, and three runs of the callback.
C4_Witness ==
    /\ app.variant = "nodeps"
    /\ app.phase = "idle"
    /\ app.commits >= 3
    /\ app.count > 0
    /\ app.text # ""
    /\ app.effectRuns[1] = app.commits

\* The effect of App that has the empty dependency list.
EmptySlot == IF app.variant = "final" THEN 2 ELSE 1

\* C5: with the empty dependency list the callback has run exactly once
\* as soon as the effects of the first commit have run, whatever commits
\* follow; the setTimeout effect has set exactly one timeout.
C5_EmptyDepsRunsOnce ==
    app.variant \in {"empty", "final"} =>
        /\ app.effectRuns[EmptySlot] = IF FirstEffectsRan(app) THEN 1 ELSE 0
        /\ app.variant = "final" =>
              app.timersSet = IF FirstEffectsRan(app) THEN 1 ELSE 0

\* C5 witness: the timeout has fired and reset a clicked counter, three
\* commits have happened, and one timeout was set.
C5_Witness ==
    /\ app.variant = "final"
    /\ app.phase = "idle"
    /\ app.commits >= 3
    /\ app.timers = 0
    /\ app.countChanges >= 2
    /\ app.timersSet = 1

\* C6: with the list [count] (and [text] in the last version of App) the
\* callback has run once for the first render and once for every later
\* render that saw another value than the render before it.
C6_DepsRunOnChange ==
    app.phase = "idle" /\ app.renders >= 1 =>
        /\ app.variant = "count" => app.effectRuns[1] = 1 + app.countChanges
        /\ app.variant = "final" => app.effectRuns[1] = 1 + app.textChanges

\* C6 witness: a render that saw another count, a render that saw only
\* another text, and two runs of the callback.
C6_Witness ==
    /\ app.variant = "count"
    /\ app.phase = "idle"
    /\ app.countChanges = 1
    /\ app.textChanges >= 1
    /\ app.renders >= 3
    /\ app.effectRuns[1] = 2

\* C9: a step in which a request of an instance rejects leaves the
\* instance's images as they are, schedules no re-render, logs nothing
\* (setImages is not called) and starts no render, commit or request.
C9_RejectionDoesNothing ==
    [][\A i \in Inst :
          dog'[i].rejected > dog[i].rejected =>
              /\ dog'[i].images = dog[i].images
              /\ dog'[i].dirty = dog[i].dirty
              /\ dog'[i].log = dog[i].log
              /\ dog'[i].resolved = dog[i].resolved
              /\ dog'[i].requests = dog[i].requests
              /\ dog'[i].renders = dog[i].renders
              /\ dog'[i].phase = dog[i].phase]_vars

\* C9 witness: the only request has rejected; the images are still empty
\* and no re-render is scheduled.
C9_Witness ==
    /\ dog[1].rejected = 1
    /\ dog[1].requests = 1
    /\ dog[1].resolved = 0
    /\ dog[1].images = Arr(<<>>)
    /\ ~dog[1].dirty
    /\ dog[1].log = <<"render", "useEffect">>

\* C10 as stated: images is a sequence of strings in every reachable
\* state. The response handler stores data.message unvalidated.
C10_ImagesAlwaysStrings == \A i \in Inst : IsStringSeq(dog[i].images)

\* C3 as stated: after a rejection the loop goes on: a render, an effect
\* run or a response is still to come until the bound on renders is
\* reached.
C3_LoopSurvivesRejection ==
    (dog[1].rejected >= 1 /\ dog[1].renders < MaxRenders) =>
        (dog[1].dirty \/ dog[1].phase # "idle" \/ dog[1].inflight # {})

\* C3 as amended: DogPics as shipped and mounted alone has stopped once a
\* request has rejected: no render is scheduled, no commit or effect run is
\* pending, no request is in flight, and every request before the rejected
\* one was answered and rendered.
C3_RejectionStopsLoop ==
    dog[1].rejected >= 1 =>
        /\ dog[1].rejected = 1
        /\ ~dog[1].dirty
        /\ dog[1].phase = "idle"
        /\ dog[1].inflight = {}
        /\ dog[1].requests = dog[1].resolved + 1
        /\ dog[1].renders = dog[1].requests
        /\ ~ENABLED NextAlone

\* C3 witness: the loop ran twice, the third request rejected, and the
\* instance is at rest below the bound on renders.
C3_Witness ==
    /\ dog[1].rejected = 1
    /\ dog[1].resolved = 2
    /\ dog[1].renders = 3
    /\ dog[1].renders < MaxRenders
    /\ dog[1].status = "mounted"

\* The number of entries x among the first n entries of the log s.
Count(s, x, n) == Cardinality({k \in 1..n : s[k] = x})

\* Render, commit and effect run follow each other: a render in progress
\* is one ahead of the commits, a commit whose effects are pending is one
\* ahead of the effect runs, and nothing else is ahead of anything.
InOrder(phase, renders, commits, runs) ==
    CASE phase = "idle" -> renders = commits /\ runs = commits
      [] phase = "rendered" -> renders = commits + 1 /\ runs = commits
      [] phase = "committed" -> renders = commits /\ runs = commits - 1

\* In every prefix of the log the effect lines are never ahead of the
\* render lines and never more than one behind.
LogInOrder(log, renderLine, effectLine) ==
    \A n \in 0..Len(log) :
        /\ Count(log, effectLine, n) <= Count(log, renderLine, n)
        /\ Count(log, renderLine, n) <= Count(log, effectLine, n) + 1

\* C7: in DogPics and in App, each with an effect that has no dependency
\* list, every render is followed by its commit and the commit by its
\* effect run before the next render starts; the console shows the render
\* line before the effect line of each cycle; and a response handler, which
\* enqueues the state update of an effect, never runs before that effect.
C7_RenderCommitEffectOrder ==
    /\ InOrder(dog[1].phase, dog[1].renders, dog[1].commits, dog[1].effectRuns)
    /\ InOrder(app.phase, app.renders, app.commits, app.effectRuns[1])
    /\ LogInOrder(dog[1].log, "render", "useEffect")
    /\ LogInOrder(app.log, "Component rendering", "useEffect called")
    /\ \A n \in 0..Len(dog[1].log) :
          Count(dog[1].log, "setState", n) <= Count(dog[1].log, "useEffect", n)
    /\ dog[1].resolved + Cardinality(dog[1].inflight) = dog[1].effectRuns

\* C7 witness: two full cycles of DogPics, the second caused by the first
\* response, and two full cycles of App.
C7_Witness ==
    /\ dog[1].phase = "idle"
    /\ dog[1].commits >= 2
    /\ dog[1].resolved >= 1
    /\ SubSeq(dog[1].log, 1, 3) = <<"render", "useEffect", "setState">>
    /\ app.phase = "idle"
    /\ app.log = <<"Component rendering", "useEffect called",
                   "Component rendering", "useEffect called">>

\* C1: DogPics as shipped with a fetch that always resolves never comes
\* to rest below the bound on renders: some step is always enabled, every
\* number of requests below the bound is followed by the next, and once a
\* response has been processed a second request is issued.
C1_RequestsGrowWithoutBound ==
    /\ [](dog[1].requests < MaxRenders => ENABLED NextLoop)
    /\ \A n \in 0..(MaxRenders - 1) :
          (dog[1].requests = n) ~> (dog[1].requests = n + 1)
    /\ (dog[1].resolved >= 1) ~> (dog[1].requests >= 2)

\* C1 witness: the third request has been issued after two responses were
\* processed.
C1_Witness ==
    /\ dog[1].variant = "shipped"
    /\ dog[1].requests >= 3
    /\ dog[1].resolved >= 2
    /\ dog[1].renders = dog[1].requests

\* The instance is at rest with the data of its one request.
IdleWithData(i) ==
    /\ dog[i].status = "mounted"
    /\ dog[i].phase = "idle"
    /\ ~dog[i].dirty
    /\ dog[i].inflight = {}
    /\ dog[i].requests = 1
    /\ dog[i].renders = 2
    /\ dog[i].resolved = 1
    /\ dog[i].latest[1] \in DataOf(ArrayMessages)
    /\ dog[i].images = dog[i].latest[1].message
    /\ dog[i].log = <<"render", "useEffect", "setState", "render">>
    /\ ~ENABLED (\/ Render(i)
                 \/ Commit(i)
                 \/ RunEffects(i)
                 \/ \E r \in Requests(i), data \in DataOf(ArrayMessages) : Respond(i, r, data))

\* C8: DogPics with the empty dependency list and a fetch that resolves
\* goes render, useEffect, setImages, render and then stays at rest with
\* the received images; it never renders a third time.
C8_FixedTerminates ==
    \A i \in Inst :
        /\ <>[]IdleWithData(i)
        /\ [](dog[i].renders <= 2 /\ dog[i].requests <= 1)

\* C8 witness: both instances are at rest, each with its own images.
C8_Witness ==
    /\ IdleWithData(1)
    /\ IdleWithData(2)
    /\ dog[1].images # dog[2].images

\* The body that arrived last.
LastArrived(d) == d.latest[1]

\* C11: the images of an instance are empty until a response has been
\* processed and are always empty or the message of a response that has
\* arrived; a step changes them only by running a response handler, which
\* logs "setState", stores the message of the body that just arrived (the
\* body is then not null) and schedules a re-render of the instance.
C11_ImagesFromResponsesOnly ==
    /\ [](\A i \in Inst :
            /\ dog[i].resolved = 0 => dog[i].images = Arr(<<>>)
            /\ \/ dog[i].images = Arr(<<>>)
               \/ \E data \in dog[i].arrived :
                     /\ ~data.isNull
                     /\ dog[i].images = data.message)
    /\ [][\A i \in Inst :
            dog'[i].images # dog[i].images =>
                /\ dog'[i].resolved = dog[i].resolved + 1
                /\ dog'[i].log = Append(dog[i].log, "setState")
                /\ ~LastArrived(dog'[i]).isNull
                /\ dog'[i].images = LastArrived(dog'[i]).message
                /\ dog'[i].dirty]_vars

\* C11 witness: the first response has been processed after the first
\* render; the images are its message and a re-render is scheduled.
C11_Witness ==
    /\ dog[1].renders = 1
    /\ dog[1].resolved = 1
    /\ dog[1].images \in GoodMessages
    /\ dog[1].images = dog[1].latest[1].message
    /\ dog[1].dirty

\* C16: as long as the instance is mounted its images are the message of
\* the response that arrived last, whichever request it answers. A
\* response whose body is null has no message: its delivery leaves the
\* images as they were.
C16_ImagesAreLastArrival ==
    /\ []((dog[1].status = "mounted" /\ dog[1].latest # <<>>
               /\ ~LastArrived(dog[1]).isNull) =>
             dog[1].images = LastArrived(dog[1]).message)
    /\ [][(dog'[1].resolved > dog[1].resolved /\ LastArrived(dog'[1]).isNull) =>
             dog'[1].images = dog[1].images]_vars

\* C16 witness: two requests were in flight at once, the second was
\* answered first, and the images are now the other message, which answers
\* the first request.
C16_Witness ==
    /\ dog[1].status = "mounted"
    /\ dog[1].requests >= 2
    /\ dog[1].resolved = 2
    /\ dog[1].answered = 1
    /\ Cardinality(dog[1].arrived) = 2
    /\ \A data \in dog[1].arrived : ~data.isNull
    /\ dog[1].images = LastArrived(dog[1]).message

\* C15: DogPics as shipped and mounted alone has at most one request in
\* flight: every request is issued by an effect run, while a request is in
\* flight nothing is rendered, committed or scheduled, and every commit
\* after the first follows the processing of a response.
C15_OneRequestInFlight ==
    /\ Cardinality(dog[1].inflight) <= 1
    /\ dog[1].requests = dog[1].effectRuns
    /\ dog[1].commits <= dog[1].resolved + 1
    /\ dog[1].inflight # {} =>
          /\ dog[1].phase = "idle"
          /\ ~dog[1].dirty
          /\ dog[1].inflight = {dog[1].requests}
          /\ dog[1].commits = dog[1].requests

\* C15 witness: the third request is the only one in flight, the first
\* two have been answered.
C15_Witness ==
    /\ dog[1].inflight = {3}
    /\ dog[1].resolved = 2
    /\ dog[1].commits = 3

\* DogPics as shipped, one instance, any network outcome, which its
\* parent may unmount at any time between two cycles.
NextUnmount ==
    \/ Render(1)
    \/ Commit(1)
    \/ RunEffects(1)
    \/ \E r \in Requests(1), data \in AnyData : Respond(1, r, data)
    \/ \E r \in Requests(1) : Reject(1, r)
    \/ ParentRerender(1)
    \/ Unmount(1)

SpecUnmount == Init /\ [][NextUnmount]_vars

\* C12: once an instance is unmounted it stays unmounted and is never
\* rendered or committed again, runs no effect, issues no request and
\* keeps no scheduled re-render; the unmount cancels no request, and every
\* request in flight can still be answered, its handler logging "setState"
\* without changing the images.
C12_NothingAfterUnmount ==
    /\ [][\A i \in Inst :
            dog[i].status = "unmounted" =>
                /\ dog'[i].status = "unmounted"
                /\ dog'[i].renders = dog[i].renders
                /\ dog'[i].commits = dog[i].commits
                /\ dog'[i].effectRuns = dog[i].effectRuns
                /\ dog'[i].requests = dog[i].requests
                /\ dog'[i].images = dog[i].images
                /\ ~dog'[i].dirty
                /\ dog'[i].inflight \subseteq dog[i].inflight
                /\ dog'[i].resolved > dog[i].resolved =>
                      dog'[i].log = Append(dog[i].log, "setState")]_vars
    /\ [][\A i \in Inst :
            (dog[i].status = "mounted" /\ dog'[i].status = "unmounted") =>
                dog'[i].inflight = dog[i].inflight]_vars
    /\ [](\A i \in Inst :
            dog[i].status = "unmounted" =>
                \A r \in dog[i].inflight, data \in AnyData : ENABLED Respond(i, r, data))

\* C12 witness: the instance was unmounted with its first request in
\* flight; the response arrived afterwards, its handler logged "setState",
\* and the images are still empty.
C12_Witness ==
    /\ dog[1].status = "unmounted"
    /\ dog[1].renders = 1
    /\ dog[1].requests = 1
    /\ dog[1].resolved = 1
    /\ dog[1].inflight = {}
    /\ dog[1].images = Arr(<<>>)
    /\ dog[1].log = <<"render", "useEffect", "setState">>

\* Two instances of DogPics as shipped on one page, each re-rendered by
\* its own state updates only.
InitTwo == dog = DogInit("shipped", Inst) /\ app = AppAbsent

NextTwo ==
    \E i \in Inst :
        \/ Render(i)
        \/ Commit(i)
        \/ RunEffects(i)
        \/ \E r \in Requests(i), data \in AnyData : Respond(i, r, data)
        \/ \E r \in Requests(i) : Reject(i, r)

SpecTwo == InitTwo /\ [][NextTwo]_vars

\* C13: a step that delivers a response to one instance leaves every
\* other instance exactly as it was; in the instance itself, if mounted,
\* the images become the delivered message and a re-render is scheduled
\* (a null body, which has no message, changes and schedules nothing).
C13_InstancesIsolated ==
    [][\A i \in Inst :
          dog'[i].resolved > dog[i].resolved =>
              /\ \A j \in Inst \ {i} : dog'[j] = dog[j]
              /\ (dog[i].status = "mounted" /\ ~LastArrived(dog'[i]).isNull) =>
                    /\ dog'[i].images = LastArrived(dog'[i]).message
                    /\ dog'[i].dirty
              /\ LastArrived(dog'[i]).isNull =>
                    /\ dog'[i].images = dog[i].images
                    /\ dog'[i].dirty = dog[i].dirty]_vars

\* C13 witness: instance 1 has processed a response and awaits its
\* re-render; instance 2, its own request in flight, still has no images
\* and no re-render scheduled.
C13_Witness ==
    /\ dog[1].resolved = 1
    /\ dog[1].images \in GoodMessages
    /\ dog[1].dirty
    /\ dog[2].status = "mounted"
    /\ dog[2].inflight = {1}
    /\ dog[2].resolved = 0
    /\ dog[2].images = Arr(<<>>)
    /\ ~dog[2].dirty
    /\ dog[2].renders = 1

\* A page with the App of part_000, which nothing re-renders from
\* outside, next to DogPics as shipped. The host does not stop while a
\* step of App is pending.
NextStatic ==
    \/ NextAlone
    \/ AppRender
    \/ AppCommit
    \/ AppRunEffects

SpecStatic ==
    InitPage /\ [][NextStatic]_vars /\ WF_vars(AppRender \/ AppCommit \/ AppRunEffects)

\* App has rendered once, run its effect once and has nothing left to do.
AppAtRest ==
    /\ app.phase = "idle"
    /\ ~app.dirty
    /\ app.renders = 1
    /\ app.commits = 1
    /\ app.effectRuns[1] = 1
    /\ app.log = <<"Component rendering", "useEffect called">>
    /\ ~ENABLED (AppRender \/ AppCommit \/ AppRunEffects)

\* C14: the App of part_000, left alone, renders once and runs its effect
\* once, then stays at rest; its effect schedules no re-render, it never
\* renders twice, it has no state that changes and sets no timer.
C14_StaticAppRendersOnce ==
    /\ <>[]AppAtRest
    /\ [](/\ app.renders <= 1
          /\ app.effectRuns[1] <= 1
          /\ app.count = 0
          /\ app.text = ""
          /\ app.title = ""
          /\ app.timersSet = 0
          /\ app.renders = 1 => ~app.dirty)

\* C14 witness: App is at rest while DogPics next to it is in its third
\* cycle.
C14_Witness ==
    /\ AppAtRest
    /\ dog[1].renders >= 3
    /\ dog[1].resolved >= 2

====
